---- MODULE Spec2Model ----
(***************************************************************************)
(* Mood-to-Memories (src/script.js): the entry store, the mood registry,   *)
(* the filter state and the views derived from them (timeline, bar chart,  *)
(* trending words, word cloud, calendar), as a state machine with one      *)
(* action per DOM event handler.                                           *)
(*                                                                         *)
(* A JavaScript string is a sequence of one-character strings, so that     *)
(* trim(), toLowerCase() and the word regular expression are computed      *)
(* character by character.  Icons and colours are only copied by the code  *)
(* and stay atomic strings.  A localStorage slot holds JSON text, modelled *)
(* as the sequence of its tokens; the empty sequence is the absent slot    *)
(* (getItem gives null, which the code tests for truthiness).              *)
(***************************************************************************)
EXTENDS Integers, Sequences, FiniteSets, TLC

\* ------------------------------------------------------------------ bounds

\* The entry form is not used once the store holds this many entries: in the
\* specifications about the calendar's summaries, about the journal and its
\* words, and about the filters and the registry.
MaxEntries == 4
MaxJournal == 3
MaxShown == 2
\* Date.now() ranges over 0..MaxTime.
MaxTime == 4
\* Milliseconds per calendar day, and days per calendar month, of the clock.
MsPerDay == 4
DaysPerMonth == 2
\* The calendar shows months 0..MaxMonth.
MaxMonth == 1
\* Requests to the text service in flight at one time.
MaxPending == 2
\* Summary requests in flight where every handler runs.
MaxInFlight == 1
\* The moods of a persisted registry.
MaxStored == 2
\* The messages of the chat transcript when a message is sent.
MaxChat == 2

\* ----------------------------------------------------------------- strings

UpperChars ==
  <<"A","B","C","D","E","F","G","H","I","J","K","L","M",
    "N","O","P","Q","R","S","T","U","V","W","X","Y","Z">>
LowerChars ==
  <<"a","b","c","d","e","f","g","h","i","j","k","l","m",
    "n","o","p","q","r","s","t","u","v","w","x","y","z">>
DigitChars == {"0","1","2","3","4","5","6","7","8","9"}

LowerSet == {LowerChars[i] : i \in DOMAIN LowerChars}
UpperSet == {UpperChars[i] : i \in DOMAIN UpperChars}

ToLowerChar(c) ==
  IF c \in UpperSet
  THEN LowerChars[CHOOSE i \in DOMAIN UpperChars : UpperChars[i] = c]
  ELSE c

RECURSIVE ToLowerCase(_)
ToLowerCase(s) ==
  IF s = <<>> THEN <<>> ELSE <<ToLowerChar(Head(s))>> \o ToLowerCase(Tail(s))

IsSpace(c) == c \in {" ", "\t", "\n"}

\* A trim that takes nothing off.
NoTrim(s) == s

RECURSIVE TrimStart(_)
TrimStart(s) ==
  IF s # <<>> /\ IsSpace(Head(s)) THEN TrimStart(Tail(s)) ELSE s

RECURSIVE TrimEnd(_)
TrimEnd(s) ==
  IF s # <<>> /\ IsSpace(s[Len(s)]) THEN TrimEnd(SubSeq(s, 1, Len(s) - 1)) ELSE s

Trim(s) == TrimEnd(TrimStart(s))

\* \w of the regular expressions.
IsWordChar(c) == c \in LowerSet \/ c \in UpperSet \/ c \in DigitChars \/ c = "_"

\* The maximal runs of \w characters of s, left to right.
RECURSIVE WordRuns(_, _, _)
WordRuns(s, cur, acc) ==
  IF s = <<>>
  THEN IF cur = <<>> THEN acc ELSE Append(acc, cur)
  ELSE IF IsWordChar(Head(s))
       THEN WordRuns(Tail(s), Append(cur, Head(s)), acc)
       ELSE WordRuns(Tail(s), <<>>, IF cur = <<>> THEN acc ELSE Append(acc, cur))

\* {3,} of /\b[a-z]{3,}\b/g
MinWordLen == 3

\* s.match(/\b[a-z]{3,}\b/g): a match starts and ends at a word boundary, so
\* it is a whole run of \w characters, all of them in a-z, at least 3 long.
IsLowerWord(r) == Len(r) >= MinWordLen /\ \A i \in DOMAIN r : r[i] \in LowerSet
MatchWords(s) == SelectSeq(WordRuns(s, <<>>, <<>>), IsLowerWord)

\* ------------------------------------------------------------ mood names

Happy == <<"H","a","p","p","y">>
Sad == <<"S","a","d">>
Angry == <<"A","n","g","r","y">>
Excited == <<"E","x","c","i","t","e","d">>
Calm == <<"C","a","l","m">>
Joy == <<"J","o","y">>
JoyLower == <<"j","o","y">>
JoyUpper == <<"J","O","Y">>
HappyLower == <<"h","a","p","p","y">>
PlaceholderGg == <<"g","g">>
PlaceholderGgGg == <<"g","g"," ","g","g">>
PlaceholderUpper == <<"G","g">>

\* A guard that knows only the first built-in name.
IsFirstBuiltIn(name) == name = Happy

builtInMoodNames == <<Happy, Sad, Angry, Excited, Calm>>
IsBuiltIn(name) == \E i \in DOMAIN builtInMoodNames : builtInMoodNames[i] = name

DefaultMoods ==
  << [name |-> Happy,   icon |-> "fa-smile-beam", color |-> "#6c63ff"],
     [name |-> Sad,     icon |-> "fa-frown",      color |-> "#f77754"],
     [name |-> Angry,   icon |-> "fa-angry",      color |-> "#ff9a56"],
     [name |-> Excited, icon |-> "fa-grin-stars", color |-> "#f0c808"],
     [name |-> Calm,    icon |-> "fa-spa",        color |-> "#55c57a"] >>

\* -------------------------------------------------------------------- JSON

Tok(k, v) == [k |-> k, v |-> v]

RECURSIVE MapEntryTokens(_)
MapEntryTokens(es) ==
  IF es = <<>> THEN <<>>
  ELSE << Tok("{", <<>>),
          Tok("key", "mood"), Tok("str", Head(es).mood),
          Tok("key", "text"), Tok("str", Head(es).text),
          Tok("key", "timestamp"), Tok("num", Head(es).timestamp),
          Tok("}", <<>>) >> \o MapEntryTokens(Tail(es))

\* JSON.stringify(entries)
StringifyEntries(es) == <<Tok("[", <<>>)>> \o MapEntryTokens(es) \o <<Tok("]", <<>>)>>

RECURSIVE MapMoodTokens(_)
MapMoodTokens(ml) ==
  IF ml = <<>> THEN <<>>
  ELSE << Tok("{", <<>>),
          Tok("key", "name"), Tok("str", Head(ml).name),
          Tok("key", "icon"), Tok("str", Head(ml).icon),
          Tok("key", "color"), Tok("str", Head(ml).color),
          Tok("}", <<>>) >> \o MapMoodTokens(Tail(ml))

\* JSON.stringify(moodList)
StringifyMoods(ml) == <<Tok("[", <<>>)>> \o MapMoodTokens(ml) \o <<Tok("]", <<>>)>>

\* The members of one object, from token i to its closing brace; a repeated
\* key keeps its last value.
RECURSIVE ParseMembers(_, _, _)
ParseMembers(toks, i, obj) ==
  IF i > Len(toks) THEN [ok |-> FALSE, obj |-> obj, next |-> i]
  ELSE IF toks[i].k = "}" THEN [ok |-> TRUE, obj |-> obj, next |-> i + 1]
  ELSE IF toks[i].k = "key" /\ i + 1 <= Len(toks) /\ toks[i + 1].k \in {"str", "num"}
       THEN ParseMembers(toks, i + 2, (toks[i].v :> toks[i + 1].v) @@ obj)
       ELSE [ok |-> FALSE, obj |-> obj, next |-> i]

\* A parser that takes the end of the text for the end of the array.
RECURSIVE ParseElementsLenient(_, _, _)
ParseElementsLenient(toks, i, acc) ==
  IF i > Len(toks) THEN [ok |-> TRUE, val |-> acc]
  ELSE IF toks[i].k = "]" THEN [ok |-> i = Len(toks), val |-> acc]
  ELSE IF toks[i].k = "{"
       THEN LET r == ParseMembers(toks, i + 1, <<>>)
            IN  IF r.ok THEN ParseElementsLenient(toks, r.next, Append(acc, r.obj))
                ELSE [ok |-> FALSE, val |-> <<>>]
       ELSE [ok |-> FALSE, val |-> <<>>]

RECURSIVE ParseElements(_, _, _)
ParseElements(toks, i, acc) ==
  IF i > Len(toks) THEN [ok |-> FALSE, val |-> <<>>]
  ELSE IF toks[i].k = "]" THEN [ok |-> i = Len(toks), val |-> acc]
  ELSE IF toks[i].k = "{"
       THEN LET r == ParseMembers(toks, i + 1, <<>>)
            IN  IF r.ok THEN ParseElements(toks, r.next, Append(acc, r.obj))
                ELSE [ok |-> FALSE, val |-> <<>>]
       ELSE [ok |-> FALSE, val |-> <<>>]

\* JSON.parse(text) of an array of flat objects; ok is FALSE where it throws.
JsonParse(toks) ==
  IF toks # <<>> /\ toks[1].k = "[" THEN ParseElements(toks, 2, <<>>)
  ELSE [ok |-> FALSE, val |-> <<>>]

RECURSIVE AsEntries(_)
AsEntries(objs) ==
  IF objs = <<>> THEN <<>>
  ELSE <<[mood |-> Head(objs)["mood"], text |-> Head(objs)["text"],
          timestamp |-> Head(objs)["timestamp"]]>> \o AsEntries(Tail(objs))

RECURSIVE AsMoods(_)
AsMoods(objs) ==
  IF objs = <<>> THEN <<>>
  ELSE <<[name |-> Head(objs)["name"], icon |-> Head(objs)["icon"],
          color |-> Head(objs)["color"]]>> \o AsMoods(Tail(objs))

\* ------------------------------------------------------------- entry store

\* loadEntries: the value of entries after it ran on the slot's text.
LoadEntriesFrom(slot) ==
  IF slot = <<>> THEN <<>>
  ELSE LET r == JsonParse(slot) IN IF r.ok THEN AsEntries(r.val) ELSE <<>>

\* A saveEntries that writes all but the newest entry.
SaveAllButLast(es) == StringifyEntries(SubSeq(es, 1, Len(es) - 1))

\* saveEntries: the slot's text after it ran.
SaveEntriesOf(es) == StringifyEntries(es)

\* A findLastIndex in the place of findIndex.
FindLastIndexByTimestamp(es, ts) ==
  IF \E i \in DOMAIN es : es[i].timestamp = ts
  THEN CHOOSE i \in DOMAIN es :
         es[i].timestamp = ts /\ \A j \in (i + 1)..Len(es) : es[j].timestamp # ts
  ELSE 0

\* entries.findIndex(e => e.timestamp === ts); 0 stands for -1.
FindIndexByTimestamp(es, ts) ==
  IF \E i \in DOMAIN es : es[i].timestamp = ts
  THEN CHOOSE i \in DOMAIN es :
         es[i].timestamp = ts /\ \A j \in 1..(i - 1) : es[j].timestamp # ts
  ELSE 0

\* entries.splice(idx, 1)
Splice(es, idx) == SubSeq(es, 1, idx - 1) \o SubSeq(es, idx + 1, Len(es))

\* ----------------------------------------------------------- mood registry

\* The first filter of loadMoodList: empty and placeholder names are dropped.
KeepName(m) ==
  LET name == Trim(m.name)
  IN  /\ name # <<>>
      /\ ToLowerCase(name) # PlaceholderGg
      /\ ToLowerCase(name) # PlaceholderGgGg

\* A second filter that drops nothing.
DropNothing(ml, seen) == ml

\* The second filter of loadMoodList: a name already seen is dropped.
RECURSIVE DropSeen(_, _)
DropSeen(ml, seen) ==
  IF ml = <<>> THEN <<>>
  ELSE IF Head(ml).name \in seen THEN DropSeen(Tail(ml), seen)
       ELSE <<Head(ml)>> \o DropSeen(Tail(ml), seen \cup {Head(ml).name})

\* A loadMoodList that puts the built-in moods in front of whatever is stored.
LoadMoodListSeeding(slot) ==
  LET r == JsonParse(slot)
  IN  IF slot # <<>> /\ ~r.ok THEN <<>>
      ELSE LET raw == IF slot # <<>> THEN DefaultMoods \o AsMoods(r.val) ELSE DefaultMoods
           IN  DropSeen(SelectSeq(raw, KeepName), {})

\* loadMoodList: the value of moodList after it ran on the slot's text.
LoadMoodListFrom(slot) ==
  LET r == JsonParse(slot)
  IN  IF slot # <<>> /\ ~r.ok THEN <<>>
      ELSE LET raw == IF slot # <<>> THEN AsMoods(r.val) ELSE DefaultMoods
           IN  DropSeen(SelectSeq(raw, KeepName), {})

\* A saveMoodList that writes the built-in moods only.
SaveBuiltInsOnly(ml) == StringifyMoods(SelectSeq(ml, LAMBDA m : IsBuiltIn(m.name)))

\* saveMoodList: the slot's text after it ran.
SaveMoodListOf(ml) == StringifyMoods(ml)

\* deleteMood(name), its effect on moodList.
DeleteMoodFrom(ml, name) ==
  IF IsBuiltIn(name) THEN ml
  ELSE SelectSeq(ml, LAMBDA m : m.name # name)

CustomIcon == "fa-heart"

\* A find that compares the names as they are spelled.
FindMoodExact(ml, name) ==
  IF \E i \in DOMAIN ml : ml[i].name = name
  THEN CHOOSE i \in DOMAIN ml : ml[i].name = name
  ELSE 0

\* moodList.find(m => m.name.toLowerCase() === name.toLowerCase()), as an index.
FindMoodIgnoreCase(ml, name) ==
  IF \E i \in DOMAIN ml : ToLowerCase(ml[i].name) = ToLowerCase(name)
  THEN CHOOSE i \in DOMAIN ml :
         /\ ToLowerCase(ml[i].name) = ToLowerCase(name)
         /\ \A j \in 1..(i - 1) : ToLowerCase(ml[j].name) # ToLowerCase(name)
  ELSE 0

\* addCustomMood(name, color), its effect on moodList.
AddMoodTo(ml, name, color) ==
  IF name = <<>> THEN ml
  ELSE LET i == FindMoodIgnoreCase(ml, name)
       IN  IF i > 0
           THEN [ml EXCEPT ![i] = [name |-> ml[i].name, icon |-> CustomIcon, color |-> color]]
           ELSE Append(ml, [name |-> name, icon |-> CustomIcon, color |-> color])

\* ------------------------------------------------------------ derived views

\* new Date(ts).toDateString(): the calendar day of a timestamp.
DayString(ts) == ts \div MsPerDay
\* The month a calendar day lies in, and the days of a month.
MonthOf(d) == d \div DaysPerMonth
DaysOfMonth(month) == {month * DaysPerMonth + k : k \in 0..(DaysPerMonth - 1)}
\* new Date(year, month, day): the instant a calendar day starts.
DateOfDay(d) == d * MsPerDay

NoFilter == <<>>

\* An insertion that puts e in front of the elements of equal timestamp.
RECURSIVE InsertDescInFront(_, _)
InsertDescInFront(sorted, e) ==
  IF sorted = <<>> THEN <<e>>
  ELSE IF Head(sorted).timestamp > e.timestamp
       THEN <<Head(sorted)>> \o InsertDescInFront(Tail(sorted), e)
       ELSE <<e>> \o sorted

\* sort((a, b) => b.timestamp - a.timestamp): the sort is stable, so e goes
\* behind every element whose timestamp is not smaller.
RECURSIVE InsertDesc(_, _)
InsertDesc(sorted, e) ==
  IF sorted = <<>> THEN <<e>>
  ELSE IF Head(sorted).timestamp >= e.timestamp
       THEN <<Head(sorted)>> \o InsertDesc(Tail(sorted), e)
       ELSE <<e>> \o sorted

RECURSIVE SortDesc(_)
SortDesc(es) ==
  IF es = <<>> THEN <<>>
  ELSE InsertDesc(SortDesc(SubSeq(es, 1, Len(es) - 1)), es[Len(es)])

\* A gate that looks at the mood filter only.
PassesMoodOnly(e, fm, fd) == ~(fm # NoFilter /\ e.mood # fm)

\* The two early returns of the forEach body of renderEntries.
PassesFilters(e, fm, fd) ==
  /\ ~(fm # NoFilter /\ e.mood # fm)
  /\ ~(fd # NoFilter /\ DayString(e.timestamp) # DayString(fd[1]))

\* renderEntries: the cards of the timeline, top first.
RenderEntries(es, fm, fd) ==
  SelectSeq(SortDesc(es), LAMBDA e : PassesFilters(e, fm, fd))

\* A count that takes every entry for the mood.
CountAll(es, name) == Len(es)

\* counts[name] at the end of the two loops of updateChart.
CountMood(es, name) == Cardinality({i \in DOMAIN es : es[i].mood = name})

RECURSIVE MapCounts(_, _)
MapCounts(ml, es) ==
  IF ml = <<>> THEN <<>>
  ELSE <<CountMood(es, Head(ml).name)>> \o MapCounts(Tail(ml), es)

RECURSIVE MapNames(_)
MapNames(ml) == IF ml = <<>> THEN <<>> ELSE <<Head(ml).name>> \o MapNames(Tail(ml))

RECURSIVE MapFaded(_, _)
MapFaded(ml, fm) ==
  IF ml = <<>> THEN <<>>
  ELSE <<fm # NoFilter /\ Head(ml).name # fm>> \o MapFaded(Tail(ml), fm)

\* updateChart: labels, bar heights, and which bars are drawn faded.
UpdateChart(ml, es, fm) ==
  [labels |-> MapNames(ml), data |-> MapCounts(ml, es), faded |-> MapFaded(ml, fm)]

StopwordsTrending ==
  { <<"t","h","e">>, <<"a","n","d">>, <<"t","o">>, <<"i","s">>, <<"i","t">>,
    <<"i","n">>, <<"a">>, <<"o","f">>, <<"o","n">>, <<"f","o","r">>,
    <<"w","i","t","h">>, <<"t","h","a","t">>, <<"t","h","i","s">>,
    <<"t","o","d","a","y">>, <<"i">>, <<"w","a","s">>, <<"m","y">>, <<"m","e">>,
    <<"a","t">> }
StopwordsCloud ==
  StopwordsTrending \cup
  { <<"h","a","d">>, <<"h","a","v","e">>, <<"h","a","s">>, <<"y","o","u">>, <<"w","e">> }

\* freq[w] = (freq[w] || 0) + 1 over a list of words: the table as its pairs
\* in the order the keys were first set (the order Object.entries gives).
RECURSIVE CountWords(_, _, _)
CountWords(words, stop, freq) ==
  IF words = <<>> THEN freq
  ELSE LET w == Head(words)
       IN  IF w \in stop THEN CountWords(Tail(words), stop, freq)
           ELSE IF \E i \in DOMAIN freq : freq[i].word = w
                THEN CountWords(Tail(words), stop,
                       [i \in DOMAIN freq |->
                          IF freq[i].word = w
                          THEN [word |-> w, count |-> freq[i].count + 1]
                          ELSE freq[i]])
                ELSE CountWords(Tail(words), stop, Append(freq, [word |-> w, count |-> 1]))

RECURSIVE WordFreq(_, _, _)
WordFreq(es, stop, freq) ==
  IF es = <<>> THEN freq
  ELSE WordFreq(Tail(es), stop,
                CountWords(MatchWords(ToLowerCase(Head(es).text)), stop, freq))

\* An insertion in ascending order of count.
RECURSIVE InsertByCountAsc(_, _)
InsertByCountAsc(sorted, p) ==
  IF sorted = <<>> THEN <<p>>
  ELSE IF Head(sorted).count <= p.count
       THEN <<Head(sorted)>> \o InsertByCountAsc(Tail(sorted), p)
       ELSE <<p>> \o sorted

\* sort((a, b) => b[1] - a[1]), stable.
RECURSIVE InsertByCount(_, _)
InsertByCount(sorted, p) ==
  IF sorted = <<>> THEN <<p>>
  ELSE IF Head(sorted).count >= p.count
       THEN <<Head(sorted)>> \o InsertByCount(Tail(sorted), p)
       ELSE <<p>> \o sorted

RECURSIVE SortByCount(_)
SortByCount(freq) ==
  IF freq = <<>> THEN <<>>
  ELSE InsertByCount(SortByCount(SubSeq(freq, 1, Len(freq) - 1)), freq[Len(freq)])

Take(s, n) == SubSeq(s, 1, IF Len(s) < n THEN Len(s) ELSE n)

TrendingTop == 5
CloudTop == 20

\* updateTrending: the words shown, with their counts.
UpdateTrending(es) == Take(SortByCount(WordFreq(es, StopwordsTrending, <<>>)), TrendingTop)
\* updateWordCloud: the words shown, with their counts.
UpdateWordCloud(es) == Take(SortByCount(WordFreq(es, StopwordsCloud, <<>>)), CloudTop)

\* entries.filter(same day).map(e => e.mood)
RECURSIVE DayMoods(_, _)
DayMoods(es, d) ==
  IF es = <<>> THEN <<>>
  ELSE (IF DayString(Head(es).timestamp) = d THEN <<Head(es).mood>> ELSE <<>>)
       \o DayMoods(Tail(es), d)

\* Array.from(new Set(moods)): first occurrences, in order.
RECURSIVE Unique(_, _)
Unique(moods, seen) ==
  IF moods = <<>> THEN <<>>
  ELSE IF Head(moods) \in seen THEN Unique(Tail(moods), seen)
       ELSE <<Head(moods)>> \o Unique(Tail(moods), seen \cup {Head(moods)})

MaxDots == 3
MixThreshold == 4

\* Dots that are drawn for a mood the registry does not know, too.
RECURSIVE MoodDotsUnguarded(_, _)
MoodDotsUnguarded(names, ml) ==
  IF names = <<>> THEN <<>>
  ELSE (IF \E i \in DOMAIN ml : ml[i].name = Head(names)
        THEN <<ml[CHOOSE i \in DOMAIN ml :
                    ml[i].name = Head(names)
                    /\ \A j \in 1..(i - 1) : ml[j].name # Head(names)].color>>
        ELSE <<"">>)
       \o MoodDotsUnguarded(Tail(names), ml)

\* The colour dots of a cell: one for each of the first 3 unique moods that the
\* registry knows.
RECURSIVE MoodDots(_, _)
MoodDots(names, ml) ==
  IF names = <<>> THEN <<>>
  ELSE (IF \E i \in DOMAIN ml : ml[i].name = Head(names)
        THEN <<ml[CHOOSE i \in DOMAIN ml :
                    ml[i].name = Head(names)
                    /\ \A j \in 1..(i - 1) : ml[j].name # Head(names)].color>>
        ELSE <<>>)
       \o MoodDots(Tail(names), ml)

\* -------------------------------------------------------------------- state

VARIABLES
  now,            \* Date.now()
  entries,        \* let entries
  storedEntries,  \* localStorage 'm2mEntries'
  moodList,       \* let moodList
  storedMoods,    \* localStorage 'm2mMoods'
  storedKey,      \* localStorage 'm2mGeminiKey' holds a key
  filterMood,     \* let filterMood (NoFilter for null)
  filterDate,     \* let filterDate (NoFilter for null, else <<instant>>)
  timeline,       \* the cards of #entriesContainer, top first
  chart,          \* moodChart.data
  trending,       \* the words of #trending
  wordCloud,      \* the words of #wordCloud
  calMonth,       \* the month of currentCalendarDate
  cells,          \* the day cells of #calendarGrid
  mixFeelings,    \* const mixFeelings
  pending,        \* generateMixtureFeelingForDate calls awaiting fetch
  form,           \* entryForm: the radio checked and the content of the text area
  affirmation,    \* the text of #dailyAffirmation .affirmation-text
  affCalls,       \* loadDailyAffirmation calls awaiting fetch
  chatMessages,   \* the messages appended to #chatMessages
  conversationHistory, \* let conversationHistory
  chatCalls,      \* sendChatMessage calls awaiting fetch
  ev              \* the last event handled

vars ==
  <<now, entries, storedEntries, moodList, storedMoods, storedKey, filterMood,
    filterDate, timeline, chart, trending, wordCloud, calMonth, cells,
    mixFeelings, pending, form, affirmation, affCalls, chatMessages,
    conversationHistory, chatCalls, ev>>

\* The affirmation panel and the chat.
assistant == <<affirmation, affCalls, chatMessages, conversationHistory, chatCalls>>

\* ev: the handler that ran last (op).  For a click on a chart bar or a
\* calendar cell, n is the bar or the day, again tells that the event before
\* it was a click on the same target, and same that the filter was set to
\* that target before that earlier click (which therefore cleared it).
\* entryForm after reset(), and as the page first shows it.
EmptyForm == [mood |-> <<>>, text |-> <<>>]

Event(op) == [op |-> op, n |-> 0, again |-> FALSE, same |-> FALSE]
Click(op, n, cleared) ==
  [op |-> op, n |-> n, again |-> ev.op = op /\ ev.n = n,
   same |-> ev.op = op /\ ev.n = n /\ cleared]

\* ---------------------------------------------------------------- calendar

NoCaption == <<>>
\* `Mixed feelings: ${uniqueMoods.join(', ')}`
FallbackCaption(unique) == <<"Mixed feelings", unique>>
AiCaption(feeling) == <<"feeling", feeling>>

Cached(cache, d) == d \in DOMAIN cache

\* A cell whose threshold counts the distinct moods of the day, not its entries.
BuildCellByUnique(d, es, ml, cache, haveKey) ==
  LET dayMoods == DayMoods(es, d)
      unique == Unique(dayMoods, {})
      requested == Len(unique) >= MixThreshold
  IN  [ unique |-> unique,
        dots |-> MoodDots(Take(unique, MaxDots), ml),
        requested |-> requested,
        fetching |-> requested /\ ~Cached(cache, d) /\ haveKey,
        caption |-> IF ~requested THEN NoCaption
                    ELSE IF Cached(cache, d) THEN AiCaption(cache[d])
                    ELSE IF haveKey THEN NoCaption
                    ELSE FallbackCaption(unique) ]

\* One day cell as updateCalendar builds it.  requested: the cell called
\* generateMixtureFeelingForDate.  The caption is the one set before the next
\* event: the cached feeling, or the fallback when no key is to be had;
\* with a key the request goes out and the caption waits for the reply.
BuildCell(d, es, ml, cache, haveKey) ==
  LET dayMoods == DayMoods(es, d)
      unique == Unique(dayMoods, {})
      requested == Len(dayMoods) >= MixThreshold
  IN  [ unique |-> unique,
        dots |-> MoodDots(Take(unique, MaxDots), ml),
        requested |-> requested,
        fetching |-> requested /\ ~Cached(cache, d) /\ haveKey,
        caption |-> IF ~requested THEN NoCaption
                    ELSE IF Cached(cache, d) THEN AiCaption(cache[d])
                    ELSE IF haveKey THEN NoCaption
                    ELSE FallbackCaption(unique) ]

\* updateCalendar: the cells of the month shown.
UpdateCalendar(month, es, ml, cache, haveKey) ==
  [d \in DaysOfMonth(month) |-> BuildCell(d, es, ml, cache, haveKey)]

\* The requests left in flight by earlier renderings: their cells are no
\* longer in the grid.
RECURSIVE Detach(_)
Detach(calls) ==
  IF calls = <<>> THEN <<>>
  ELSE <<[day |-> Head(calls).day, attached |-> FALSE]>> \o Detach(Tail(calls))

\* The requests a rendering sends, in the order of the days.
RECURSIVE NewCalls(_, _)
NewCalls(cs, days) ==
  IF days = {} THEN <<>>
  ELSE LET d == CHOOSE x \in days : \A y \in days : x <= y
       IN  (IF cs[d].fetching THEN <<[day |-> d, attached |-> TRUE]>> ELSE <<>>)
           \o NewCalls(cs, days \ {d})

\* getApiKey inside a rendering: the stored key, or the one typed at the prompt.
AsksKey(month, es, cache) ==
  \E d \in DaysOfMonth(month) :
    Len(DayMoods(es, d)) >= MixThreshold /\ ~Cached(cache, d)

\* The calendar part of a handler: cells', pending' and storedKey'.
\* typed: the user answers a prompt for the key with a key.
Calendar(month, es, ml, typed) ==
  LET haveKey == storedKey \/ typed
      cs == UpdateCalendar(month, es, ml, mixFeelings, haveKey)
  IN  /\ cells' = cs
      /\ pending' = Detach(pending) \o NewCalls(cs, DaysOfMonth(month))
      /\ storedKey' = (storedKey \/ (typed /\ AsksKey(month, es, mixFeelings)))

\* ---------------------------------------------------------------- assistant

\* What generateAffirmationForMoods returns when it has no text: null, or the
\* empty string a blank reply trims to.  Every caller tests it for truthiness.
NoText == "null"

\* The content the page is served with.
PageText == "page text"

fallbackAffirmations ==
  << "You are resilient and capable of handling whatever comes your way.",
     "Every day is a new opportunity to grow and learn.",
     "You have the strength to turn challenges into opportunities.",
     "Trust yourself; you are doing your best and it is enough.",
     "Focus on what you can control and let go of the rest.",
     "You are worthy of love and compassion, including your own.",
     "Celebrate your small victories and progress today.",
     "Take a deep breath; you deserve calm and clarity." >>

\* Math.floor(Math.random() * fallbackAffirmations.length)
Draws == 0..(Len(fallbackAffirmations) - 1)

\* A panel that shows whatever the call returned.
ShowAffirmationUnchecked(text, draw) == text

\* The tail of loadDailyAffirmation: the text, or a fallback drawn at random.
ShowAffirmation(text, draw) ==
  IF text # NoText THEN text ELSE fallbackAffirmations[draw + 1]

\* loadDailyAffirmation up to its await: with a key the fetch goes out, with
\* none generateAffirmationForMoods returns null and the fallback is shown.
LoadDailyAffirmation(shown, calls, haveKey, draw) ==
  IF haveKey
  THEN [text |-> shown, calls |-> calls + 1]
  ELSE [text |-> ShowAffirmation(NoText, draw), calls |-> calls]

\* The messages sendChatMessage writes itself.
NoKeyError ==
  "Error: No Gemini API key provided. Please refresh and enter a valid key to use the chatbot."
Oops == "Oops! Something went wrong while contacting the API."
Sorry == "Sorry, I didn't catch that."
Undefined == "undefined"

Message(author, text) == [author |-> author, text |-> text]
Turn(role, content) == [role |-> role, content |-> content]

\* ------------------------------------------------------------------ events

\* The DOMContentLoaded handler on the storage contents sm, se and key; draw
\* is the number Math.random gives loadDailyAffirmation.
StartupDrawing(t, sm, se, key, draw) ==
  LET ml == LoadMoodListFrom(sm)
      es == LoadEntriesFrom(se)
      cs == UpdateCalendar(MonthOf(DayString(t)), es, ml, <<>>, key)
  IN  /\ now = t
      /\ storedMoods = sm
      /\ storedEntries = se
      /\ storedKey = key
      /\ moodList = ml
      /\ entries = es
      /\ filterMood = NoFilter
      /\ filterDate = NoFilter
      /\ timeline = RenderEntries(es, NoFilter, NoFilter)
      /\ chart = UpdateChart(ml, es, NoFilter)
      /\ trending = UpdateTrending(es)
      /\ wordCloud = UpdateWordCloud(es)
      /\ calMonth = MonthOf(DayString(t))
      /\ cells = cs
      /\ mixFeelings = <<>>
      /\ pending = NewCalls(cs, DaysOfMonth(MonthOf(DayString(t))))
      /\ form = EmptyForm
      /\ affirmation = LoadDailyAffirmation(PageText, 0, key, draw).text
      /\ affCalls = LoadDailyAffirmation(PageText, 0, key, draw).calls
      /\ chatMessages = <<>>
      /\ conversationHistory = <<>>
      /\ chatCalls = 0
      /\ ev = Event("load")

\* The handler when Math.random draws 0.
Startup(t, sm, se, key) == StartupDrawing(t, sm, se, key, 0)

\* First visit: nothing is stored.  loadDailyAffirmation asks for the key,
\* which the user types or not.
Init == \E typed \in BOOLEAN : Startup(0, <<>>, <<>>, typed)
\* First visit, no key typed.
InitNoKey == Startup(0, <<>>, <<>>, FALSE)

\* The page is loaded again in the same browser profile; the requests of the
\* page left are gone with it.
ReloadDrawing(draw) ==
  \E ml \in {LoadMoodListFrom(storedMoods)}, es \in {LoadEntriesFrom(storedEntries)},
     typed \in BOOLEAN :
    LET key == storedKey \/ typed
        cs == UpdateCalendar(MonthOf(DayString(now)), es, ml, <<>>, key)
    IN  /\ moodList' = ml
        /\ entries' = es
        /\ storedKey' = key
        /\ filterMood' = NoFilter
        /\ filterDate' = NoFilter
        /\ timeline' = RenderEntries(es, NoFilter, NoFilter)
        /\ chart' = UpdateChart(ml, es, NoFilter)
        /\ trending' = UpdateTrending(es)
        /\ wordCloud' = UpdateWordCloud(es)
        /\ calMonth' = MonthOf(DayString(now))
        /\ cells' = cs
        /\ mixFeelings' = <<>>
        /\ pending' = NewCalls(cs, DaysOfMonth(MonthOf(DayString(now))))
        /\ form' = EmptyForm
        /\ affirmation' = LoadDailyAffirmation(PageText, 0, key, draw).text
        /\ affCalls' = LoadDailyAffirmation(PageText, 0, key, draw).calls
        /\ chatMessages' = <<>>
        /\ conversationHistory' = <<>>
        /\ chatCalls' = 0
        /\ ev' = Event("load")
        /\ UNCHANGED <<now, storedMoods, storedEntries>>

\* The reload when Math.random draws 0.
Reload == ReloadDrawing(0)

\* The clock advances.
Tick ==
  /\ now' = now + 1
  /\ UNCHANGED <<assistant, form, entries, storedEntries, moodList, storedMoods, storedKey,
                 filterMood, filterDate, timeline, chart, trending, wordCloud,
                 calMonth, cells, mixFeelings, pending, ev>>

\* entryForm submit, after the user filled the form: mood is the checked radio
\* (<<>> for none), raw the content of the text area.  A discarded submission
\* leaves the form as filled; entryForm.reset() empties it.
Submit(mood, raw, typed) ==
  LET text == Trim(raw)
      es == Append(entries, [mood |-> mood, text |-> text, timestamp |-> now])
  IN  IF mood = <<>> \/ text = <<>>
      THEN /\ form' = [mood |-> mood, text |-> raw]
           /\ ev' = Event("discard")
           /\ UNCHANGED <<assistant, now, entries, storedEntries, moodList, storedMoods,
                          storedKey, filterMood, filterDate, timeline, chart,
                          trending, wordCloud, calMonth, cells, mixFeelings, pending>>
      ELSE /\ entries' = es
           /\ form' = EmptyForm
           /\ storedEntries' = SaveEntriesOf(es)
           /\ timeline' = RenderEntries(es, filterMood, filterDate)
           /\ chart' = UpdateChart(moodList, es, filterMood)
           /\ trending' = UpdateTrending(es)
           /\ wordCloud' = UpdateWordCloud(es)
           /\ Calendar(calMonth, es, moodList, typed)
           /\ ev' = Event("submit")
           /\ UNCHANGED <<assistant, now, moodList, storedMoods, filterMood, filterDate,
                          calMonth, mixFeelings>>

\* The Delete button of card i of the timeline.
DeleteCard(i, typed) ==
  LET idx == FindIndexByTimestamp(entries, timeline[i].timestamp)
      es == Splice(entries, idx)
  IN  IF idx >= 1
      THEN /\ entries' = es
           /\ storedEntries' = SaveEntriesOf(es)
           /\ timeline' = RenderEntries(es, filterMood, filterDate)
           /\ chart' = UpdateChart(moodList, es, filterMood)
           /\ trending' = UpdateTrending(es)
           /\ wordCloud' = UpdateWordCloud(es)
           /\ Calendar(calMonth, es, moodList, typed)
           /\ ev' = Event("delete")
           /\ UNCHANGED <<assistant, now, form, moodList, storedMoods, filterMood, filterDate,
                          calMonth, mixFeelings>>
      ELSE /\ ev' = Event("delete")
           /\ UNCHANGED <<assistant, now, form, entries, storedEntries, moodList, storedMoods,
                          storedKey, filterMood, filterDate, timeline, chart,
                          trending, wordCloud, calMonth, cells, mixFeelings, pending>>

\* An onClick that sets the filter and never clears it.
ClickBarNoToggle(i) ==
  LET selectedMood == chart.labels[i]
  IN  /\ filterMood' = selectedMood
      /\ timeline' = RenderEntries(entries, selectedMood, filterDate)
      /\ ev' = Click("bar", i, filterMood = NoFilter)
      /\ UNCHANGED <<assistant, now, form, entries, storedEntries, moodList, storedMoods, storedKey,
                     filterDate, chart, trending, wordCloud, calMonth, cells,
                     mixFeelings, pending>>

\* The chart's onClick on bar i.
ClickBar(i) ==
  LET selectedMood == chart.labels[i]
      fm == IF filterMood = selectedMood THEN NoFilter ELSE selectedMood
  IN  /\ filterMood' = fm
      /\ timeline' = RenderEntries(entries, fm, filterDate)
      /\ ev' = Click("bar", i, filterMood = NoFilter)
      /\ UNCHANGED <<assistant, now, form, entries, storedEntries, moodList, storedMoods, storedKey,
                     filterDate, chart, trending, wordCloud, calMonth, cells,
                     mixFeelings, pending>>

\* A cell click that sets the filter and never clears it.
ClickCellNoToggle(d) ==
  /\ filterDate' = <<DateOfDay(d)>>
  /\ timeline' = RenderEntries(entries, filterMood, <<DateOfDay(d)>>)
  /\ ev' = Click("cell", d, filterDate = NoFilter)
  /\ UNCHANGED <<assistant, now, form, entries, storedEntries, moodList, storedMoods, storedKey,
                 filterMood, chart, trending, wordCloud, calMonth, cells,
                 mixFeelings, pending>>

\* The click handler of the cell of day d.
ClickCell(d) ==
  LET fd == IF filterDate # NoFilter /\ DayString(filterDate[1]) = d
            THEN NoFilter ELSE <<DateOfDay(d)>>
  IN  /\ filterDate' = fd
      /\ timeline' = RenderEntries(entries, filterMood, fd)
      /\ ev' = Click("cell", d, filterDate = NoFilter)
      /\ UNCHANGED <<assistant, now, form, entries, storedEntries, moodList, storedMoods, storedKey,
                     filterMood, chart, trending, wordCloud, calMonth, cells,
                     mixFeelings, pending>>

\* A month step that drops the date filter along the way.
StepMonthClearing(step, typed) ==
  /\ calMonth' = calMonth + step
  /\ Calendar(calMonth + step, entries, moodList, typed)
  /\ filterDate' = NoFilter
  /\ ev' = Event("month")
  /\ UNCHANGED <<assistant, now, form, entries, storedEntries, moodList, storedMoods, filterMood,
                 timeline, chart, trending, wordCloud, mixFeelings>>

\* prevMonthBtn and nextMonthBtn: step is -1 or 1.
StepMonth(step, typed) ==
  /\ calMonth' = calMonth + step
  /\ Calendar(calMonth + step, entries, moodList, typed)
  /\ ev' = Event("month")
  /\ UNCHANGED <<assistant, now, form, entries, storedEntries, moodList, storedMoods, filterMood,
                 filterDate, timeline, chart, trending, wordCloud, mixFeelings>>

\* saveMoodBtn click: raw is the content of #newMoodName.  renderMoodOptions
\* builds the radios anew, none of them checked.
SaveMood(raw, color) ==
  LET name == Trim(raw)
      ml == AddMoodTo(moodList, name, color)
  IN  IF name = <<>>
      THEN /\ ev' = Event("discard")
           /\ UNCHANGED <<assistant, now, form, entries, storedEntries, moodList, storedMoods,
                          storedKey, filterMood, filterDate, timeline, chart,
                          trending, wordCloud, calMonth, cells, mixFeelings, pending>>
      ELSE /\ moodList' = ml
           /\ storedMoods' = SaveMoodListOf(ml)
           /\ chart' = UpdateChart(ml, entries, filterMood)
           /\ form' = [form EXCEPT !.mood = <<>>]
           /\ ev' = Event("addMood")
           /\ UNCHANGED <<assistant, now, entries, storedEntries, storedKey, filterMood,
                          filterDate, timeline, trending, wordCloud, calMonth,
                          cells, mixFeelings, pending>>

\* A deleteMood that removes the entries of the mood along with it.
DeleteMoodPurging(name) ==
  IF IsBuiltIn(name)
  THEN /\ ev' = Event("deleteMood")
       /\ UNCHANGED <<assistant, now, form, entries, storedEntries, moodList, storedMoods,
                      storedKey, filterMood, filterDate, timeline, chart,
                      trending, wordCloud, calMonth, cells, mixFeelings, pending>>
  ELSE /\ moodList' = DeleteMoodFrom(moodList, name)
       /\ storedMoods' = SaveMoodListOf(moodList')
       /\ entries' = SelectSeq(entries, LAMBDA e : e.mood # name)
       /\ storedEntries' = SaveEntriesOf(entries')
       /\ chart' = UpdateChart(moodList', entries', filterMood)
       /\ form' = [form EXCEPT !.mood = <<>>]
       /\ ev' = Event("deleteMood")
       /\ UNCHANGED <<assistant, now, storedKey, filterMood,
                      filterDate, timeline, trending, wordCloud, calMonth,
                      cells, mixFeelings, pending>>

\* deleteMood(name)
DeleteMood(name) ==
  IF IsBuiltIn(name)
  THEN /\ ev' = Event("deleteMood")
       /\ UNCHANGED <<assistant, now, form, entries, storedEntries, moodList, storedMoods,
                      storedKey, filterMood, filterDate, timeline, chart,
                      trending, wordCloud, calMonth, cells, mixFeelings, pending>>
  ELSE /\ moodList' = DeleteMoodFrom(moodList, name)
       /\ storedMoods' = SaveMoodListOf(moodList')
       /\ chart' = UpdateChart(moodList', entries, filterMood)
       /\ form' = [form EXCEPT !.mood = <<>>]
       /\ ev' = Event("deleteMood")
       /\ UNCHANGED <<assistant, now, entries, storedEntries, storedKey, filterMood,
                      filterDate, timeline, trending, wordCloud, calMonth,
                      cells, mixFeelings, pending>>

Feelings == {"feeling one", "feeling two"}

\* A reply without text that also empties the cache slot of its day.
SummaryReplyResetting(i, feeling) ==
  LET c == pending[i]
      kept == DOMAIN mixFeelings \ {c.day}
  IN  /\ pending' = SubSeq(pending, 1, i - 1) \o SubSeq(pending, i + 1, Len(pending))
      /\ mixFeelings' = IF feeling # NoText THEN (c.day :> feeling) @@ mixFeelings
                        ELSE [d \in kept |-> mixFeelings[d]]
      /\ cells' = IF c.attached
                  THEN [cells EXCEPT ![c.day] =
                         [@ EXCEPT !.fetching = FALSE,
                                   !.caption = IF feeling # NoText THEN AiCaption(feeling)
                                               ELSE FallbackCaption(cells[c.day].unique)]]
                  ELSE cells
      /\ ev' = Event("reply")
      /\ UNCHANGED <<assistant, now, form, entries, storedEntries, moodList, storedMoods,
                     storedKey, filterMood, filterDate, timeline, chart, trending,
                     wordCloud, calMonth>>

\* A reply that has the chart drawn again.
SummaryReplyRefreshing(i, feeling) ==
  LET c == pending[i]
  IN  /\ pending' = SubSeq(pending, 1, i - 1) \o SubSeq(pending, i + 1, Len(pending))
      /\ mixFeelings' = IF feeling # NoText THEN (c.day :> feeling) @@ mixFeelings
                        ELSE mixFeelings
      /\ cells' = IF c.attached
                  THEN [cells EXCEPT ![c.day] =
                         [@ EXCEPT !.fetching = FALSE,
                                   !.caption = IF feeling # NoText THEN AiCaption(feeling)
                                               ELSE FallbackCaption(cells[c.day].unique)]]
                  ELSE cells
      /\ chart' = UpdateChart(moodList, entries, filterMood)
      /\ ev' = Event("reply")
      /\ UNCHANGED <<assistant, now, form, entries, storedEntries, moodList, storedMoods,
                     storedKey, filterMood, filterDate, timeline, trending, wordCloud,
                     calMonth>>

\* The fetch of request i settles: feeling is the text generateAffirmationForMoods
\* returns, NoText for null.  The cache is written, then the .then callback of
\* updateCalendar captions the cell the request was sent for.
SummaryReply(i, feeling) ==
  LET c == pending[i]
  IN  /\ pending' = SubSeq(pending, 1, i - 1) \o SubSeq(pending, i + 1, Len(pending))
      /\ mixFeelings' = IF feeling # NoText THEN (c.day :> feeling) @@ mixFeelings
                        ELSE mixFeelings
      /\ cells' = IF c.attached
                  THEN [cells EXCEPT ![c.day] =
                         [@ EXCEPT !.fetching = FALSE,
                                   !.caption = IF feeling # NoText THEN AiCaption(feeling)
                                               ELSE FallbackCaption(cells[c.day].unique)]]
                  ELSE cells
      /\ ev' = Event("reply")
      /\ UNCHANGED <<assistant, now, form, entries, storedEntries, moodList, storedMoods, storedKey,
                     filterMood, filterDate, timeline, chart, trending, wordCloud,
                     calMonth>>

\* newAffirmationBtn click: loadDailyAffirmation.  typed: the user answers a
\* prompt for the key with a key.
NewAffirmation(typed, draw) ==
  LET key == storedKey \/ typed
      panel == LoadDailyAffirmation(affirmation, affCalls, key, draw)
  IN  /\ storedKey' = key
      /\ affirmation' = panel.text
      /\ affCalls' = panel.calls
      /\ ev' = Event("affirm")
      /\ UNCHANGED <<now, form, entries, storedEntries, moodList, storedMoods,
                     filterMood, filterDate, timeline, chart, trending, wordCloud,
                     calMonth, cells, mixFeelings, pending, chatMessages,
                     conversationHistory, chatCalls>>

\* The fetch of a loadDailyAffirmation call settles: text is what
\* generateAffirmationForMoods returns, NoText for null.
AffirmationReply(text, draw) ==
  /\ affCalls > 0
  /\ affCalls' = affCalls - 1
  /\ affirmation' = ShowAffirmation(text, draw)
  /\ ev' = Event("affirmed")
  /\ UNCHANGED <<now, form, entries, storedEntries, moodList, storedMoods, storedKey,
                 filterMood, filterDate, timeline, chart, trending, wordCloud,
                 calMonth, cells, mixFeelings, pending, chatMessages,
                 conversationHistory, chatCalls>>

\* A sendChatMessage that goes on to the fetch without a key.
SendChatMessageUnguarded(log, history, calls, message, haveKey) ==
  [log |-> log, history |-> Append(history, Turn("user", message)),
   calls |-> calls + 1]

\* sendChatMessage up to its fetch.
SendChatMessage(log, history, calls, message, haveKey) ==
  IF haveKey
  THEN [log |-> log, history |-> Append(history, Turn("user", message)),
        calls |-> calls + 1]
  ELSE [log |-> Append(log, Message("bot", NoKeyError)),
        history |-> Append(history, Turn("user", message)),
        calls |-> calls]

\* chatForm submit: raw is the content of #chatInput.
ChatSubmit(raw, typed) ==
  LET message == Trim(raw)
      key == storedKey \/ typed
      sent == SendChatMessage(Append(chatMessages, Message("user", message)),
                              conversationHistory, chatCalls, message, key)
  IN  IF message = <<>>
      THEN /\ ev' = Event("discard")
           /\ UNCHANGED <<now, form, entries, storedEntries, moodList, storedMoods,
                          storedKey, filterMood, filterDate, timeline, chart,
                          trending, wordCloud, calMonth, cells, mixFeelings,
                          pending, assistant>>
      ELSE /\ storedKey' = key
           /\ chatMessages' = sent.log
           /\ conversationHistory' = sent.history
           /\ chatCalls' = sent.calls
           /\ ev' = Event("chat")
           /\ UNCHANGED <<now, form, entries, storedEntries, moodList, storedMoods,
                          filterMood, filterDate, timeline, chart, trending,
                          wordCloud, calMonth, cells, mixFeelings, pending,
                          affirmation, affCalls>>

\* What a fetch of sendChatMessage comes to: it fails (rejected, a status that
\* is not ok, a body that is not JSON), the body has no candidate part, the
\* part has no text, or the part has a text.
ChatOutcomes == {"failed", "no part", "no text", "Tell me more."}

\* The fetch of a sendChatMessage call settles.  A part without text makes
\* reply undefined: it is pushed, and appendMessage throws on it.
ChatReply(outcome) ==
  /\ chatCalls > 0
  /\ chatCalls' = chatCalls - 1
  /\ conversationHistory' =
       IF outcome = "failed" THEN conversationHistory
       ELSE IF outcome = "no part"
            THEN Append(conversationHistory, Turn("assistant", Sorry))
       ELSE IF outcome = "no text"
            THEN Append(conversationHistory, Turn("assistant", Undefined))
       ELSE Append(conversationHistory, Turn("assistant", outcome))
  /\ chatMessages' =
       IF outcome \in {"failed", "no text"}
       THEN Append(chatMessages, Message("bot", Oops))
       ELSE IF outcome = "no part" THEN Append(chatMessages, Message("bot", Sorry))
       ELSE Append(chatMessages, Message("bot", outcome))
  /\ ev' = Event("chatted")
  /\ UNCHANGED <<now, form, entries, storedEntries, moodList, storedMoods, storedKey,
                 filterMood, filterDate, timeline, chart, trending, wordCloud,
                 calMonth, cells, mixFeelings, pending, affirmation, affCalls>>

\* ------------------------------------------------------------------ inputs

TextHappyToday ==
  <<"I"," ","a","m"," ","h","a","p","p","y"," ","h","a","p","p","y"," ","t","o","d","a","y">>
TextHappyDays ==
  <<"H","a","p","p","y"," ","d","a","y","s"," ","a","r","e"," ","h","e","r","e">>
TextWalked == <<" ","W","a","l","k","e","d"," ","o","u","t","s","i","d","e"," ">>
TextYouHave == <<"Y","o","u"," ","h","a","v","e"," ","w","a","l","k","e","d">>
TextBlank == <<" "," ">>

\* The radios of the mood picker (renderMoodOptions), and no radio checked.
MoodOptions == {moodList[i].name : i \in DOMAIN moodList} \cup {<<>>}

\* A registry left in the slot by an earlier version or by hand: up to
\* MaxStored of these moods, in any order.
StoredPool ==
  { [name |-> Happy, icon |-> "fa-smile-beam", color |-> "#6c63ff"],
    [name |-> Joy, icon |-> "fa-heart", color |-> "#ffb74d"],
    [name |-> Joy, icon |-> "fa-heart", color |-> "#000000"],
    [name |-> JoyLower, icon |-> "fa-heart", color |-> "#ffffff"],
    [name |-> PlaceholderUpper, icon |-> "fa-heart", color |-> "#ffb74d"] }

RECURSIVE SeqsUpTo(_, _)
SeqsUpTo(S, n) ==
  IF n = 0 THEN {<<>>}
  ELSE LET shorter == SeqsUpTo(S, n - 1)
       IN  shorter \cup {Append(q, x) : q \in shorter, x \in S}

\* The slot's text: absent, a registry, or text that does not parse.
StoredRegistries ==
  {<<>>, <<Tok("[", <<>>), Tok("{", <<>>)>>}
    \cup {StringifyMoods(q) : q \in SeqsUpTo(StoredPool, MaxStored)}

InitStored == \E sm \in StoredRegistries : Startup(0, sm, <<>>, FALSE)

\* A journal left in the slot by an earlier visit: three entries of day 0.
StoredJournal ==
  StringifyEntries(
    << [mood |-> Happy, text |-> Trim(TextWalked), timestamp |-> 0],
       [mood |-> Happy, text |-> Trim(TextWalked), timestamp |-> 1],
       [mood |-> Sad,   text |-> Trim(TextWalked), timestamp |-> 2] >>)

InitJournal == Startup(MsPerDay - 1, <<>>, StoredJournal, FALSE)

\* A journal whose text breaks off before the closing bracket: JSON.parse
\* throws on it.
TruncatedJournal ==
  SubSeq(StoredJournal, 1, Len(StoredJournal) - 1)

\* The entries slot at a visit: absent, a journal, or text that does not parse.
StoredJournals == {<<>>, StoredJournal, TruncatedJournal}

InitSlots == \E se \in StoredJournals : Startup(MsPerDay - 1, <<>>, se, FALSE)

\* ----------------------------------------------------------- specifications

\* Journal: entries are written and deleted, the page is loaded again.
Next ==
  \/ now < MaxTime /\ Tick
  \/ \E mood \in MoodOptions \cap {<<>>, Happy, Calm},
        raw \in {TextWalked, TextBlank}, typed \in BOOLEAN :
       /\ Len(entries) < MaxJournal
       /\ Submit(mood, raw, typed)
  \/ \E i \in DOMAIN timeline, typed \in BOOLEAN : DeleteCard(i, typed)
  \/ Reload

Spec == InitNoKey /\ [][Next]_vars

\* The form as filled before a submission: the two entries of the examples, a
\* blank text, and no mood chosen.
FilledForms ==
  { <<Calm, TextWalked>>, <<Happy, TextHappyDays>>,
    <<Calm, TextBlank>>, <<<<>>, TextWalked>> }

\* Filters: the chart and the calendar are clicked over a small journal.
NextFilter ==
  \/ now < MaxTime /\ Tick
  \/ \E in \in FilledForms, typed \in BOOLEAN :
       /\ Len(entries) < MaxShown
       /\ in[1] \in MoodOptions
       /\ Submit(in[1], in[2], typed)
  \/ \E i \in DOMAIN timeline, typed \in BOOLEAN : DeleteCard(i, typed)
  \/ \E i \in DOMAIN chart.labels :
       chart.labels[i] \in {Happy, Calm} /\ ClickBar(i)
  \/ \E d \in DOMAIN cells : ClickCell(d)

SpecFilter == InitNoKey /\ [][NextFilter]_vars

\* What is typed into #newMoodName, and the colour #newMoodColor starts with.
TypedNames == {Joy, JoyUpper, HappyLower, PlaceholderGg, TextBlank}
PickedColor == "#ffb74d"

\* Registry: moods are added and deleted over a registry found in storage.
NextRegistry ==
  \/ \E mood \in MoodOptions \cap {Happy, Joy, JoyLower}, typed \in BOOLEAN :
       /\ Len(entries) < MaxShown
       /\ Submit(mood, TextWalked, typed)
  \/ \E raw \in TypedNames : SaveMood(raw, PickedColor)
  \/ \E name \in {Joy, JoyLower, Happy, Sad} : DeleteMood(name)
  \/ \E i \in DOMAIN timeline, typed \in BOOLEAN : DeleteCard(i, typed)
  \/ Reload

SpecRegistry == InitStored /\ [][NextRegistry]_vars

\* Words: entries with different texts.
NextWords ==
  \/ now < MaxTime /\ Tick
  \/ \E raw \in {TextHappyToday, TextHappyDays, TextWalked, TextYouHave},
        typed \in BOOLEAN :
       /\ Len(entries) < MaxJournal
       /\ Submit(Happy, raw, typed)
  \/ \E i \in DOMAIN timeline, typed \in BOOLEAN : DeleteCard(i, typed)

SpecWords == InitNoKey /\ [][NextWords]_vars

\* Summaries: a day reaches the threshold, requests go out and settle while
\* the calendar is rendered again.
NextSummary ==
  \/ now < MaxTime /\ Tick
  \/ \E mood \in MoodOptions \cap {Calm}, typed \in BOOLEAN :
       /\ Len(entries) < MaxEntries
       /\ Submit(mood, TextWalked, typed)
       /\ Len(pending') <= MaxPending
  \/ \E i \in DOMAIN timeline, typed \in BOOLEAN :
       DeleteCard(i, typed) /\ Len(pending') <= MaxPending
  \/ \E step \in {-1, 1}, typed \in BOOLEAN :
       /\ calMonth + step \in 0..MaxMonth
       /\ StepMonth(step, typed)
       /\ Len(pending') <= MaxPending
  \/ \E i \in DOMAIN pending, feeling \in Feelings \cup {NoText} :
       SummaryReply(i, feeling)

SpecSummary == InitJournal /\ [][NextSummary]_vars

\* Frame: every handler runs while filters are set.
NextFrame ==
  \/ \E mood \in MoodOptions \cap {Calm}, typed \in BOOLEAN :
       /\ Len(entries) < MaxEntries
       /\ Submit(mood, TextWalked, typed)
       /\ Len(pending') <= MaxInFlight
  \/ timeline # <<>> /\ DeleteCard(1, FALSE) /\ Len(pending') <= MaxInFlight
  \/ \E i \in DOMAIN chart.labels : chart.labels[i] = Happy /\ ClickBar(i)
  \/ \E d \in DOMAIN cells \cap {0} : ClickCell(d)
  \/ \E step \in {-1, 1} :
       /\ calMonth + step \in 0..MaxMonth
       /\ StepMonth(step, FALSE)
       /\ Len(pending') <= MaxInFlight
  \/ SaveMood(Joy, PickedColor)
  \/ DeleteMood(Joy)
  \/ Reload /\ Len(pending') <= MaxInFlight
  \/ \E i \in DOMAIN pending, feeling \in {"feeling one", NoText} :
       SummaryReply(i, feeling)

SpecFrame == InitJournal /\ [][NextFrame]_vars

\* Slots: the page is loaded over whatever the entries slot holds.
NextSlots ==
  \/ now < MaxTime /\ Tick
  \/ \E mood \in MoodOptions \cap {Calm}, typed \in BOOLEAN :
       /\ Len(entries) < MaxJournal
       /\ Submit(mood, TextWalked, typed)
       /\ Len(pending') <= MaxPending
  \/ \E i \in DOMAIN timeline, typed \in BOOLEAN :
       DeleteCard(i, typed) /\ Len(pending') <= MaxPending
  \/ Reload /\ Len(pending') <= MaxPending

SpecSlots == InitSlots /\ [][NextSlots]_vars

\* What is typed into #chatInput, the numbers Math.random is seen to draw, and
\* the texts generateAffirmationForMoods is seen to return.
ChatHello == <<" ","h","i"," ">>
SeenDraws == {0, Len(fallbackAffirmations) - 1}
SeenTexts == {"feeling one", NoText}

InitAssistant ==
  \E draw \in SeenDraws : StartupDrawing(MsPerDay - 1, <<>>, StoredJournal, FALSE, draw)

\* Assistant: affirmations, summaries and chat, with and without a key, while
\* the journal changes.
NextAssistant ==
  \/ \E mood \in MoodOptions \cap {Calm}, typed \in BOOLEAN :
       /\ Len(entries) < MaxEntries
       /\ Submit(mood, TextWalked, typed)
       /\ Len(pending') <= MaxInFlight
  \/ /\ Len(entries) >= MixThreshold /\ timeline # <<>>
     /\ DeleteCard(1, FALSE)
     /\ Len(pending') <= MaxInFlight
  \/ \E typed \in BOOLEAN, draw \in SeenDraws :
       NewAffirmation(typed, draw) /\ affCalls' <= MaxInFlight
  \/ \E text \in SeenTexts, draw \in SeenDraws : AffirmationReply(text, draw)
  \/ \E i \in DOMAIN pending, feeling \in SeenTexts : SummaryReply(i, feeling)
  \/ \E raw \in {ChatHello, TextBlank}, typed \in BOOLEAN :
       ChatSubmit(raw, typed) /\ Len(chatMessages') <= MaxChat
  \/ \E outcome \in ChatOutcomes : ChatReply(outcome)
  \/ \E draw \in SeenDraws : ReloadDrawing(draw) /\ Len(pending') <= MaxInFlight

SpecAssistant == InitAssistant /\ [][NextAssistant]_vars

\* Completions: summary and affirmation calls settle in any order between
\* submissions, deletions and clicks that set the filters.
NextCompletion ==
  \/ \E mood \in MoodOptions \cap {Calm}, typed \in BOOLEAN :
       /\ Len(entries) < MaxEntries
       /\ Submit(mood, TextWalked, typed)
       /\ Len(pending') <= MaxPending
  \/ /\ Len(entries) >= MixThreshold /\ timeline # <<>>
     /\ DeleteCard(1, FALSE)
     /\ Len(pending') <= MaxPending
  \/ \E i \in DOMAIN chart.labels : chart.labels[i] = Happy /\ ClickBar(i)
  \/ \E d \in DOMAIN cells \cap {0} : ClickCell(d)
  \/ \E typed \in BOOLEAN :
       NewAffirmation(typed, 0) /\ affCalls' <= MaxInFlight
  \/ \E text \in SeenTexts : AffirmationReply(text, 0)
  \/ \E i \in DOMAIN pending, feeling \in SeenTexts : SummaryReply(i, feeling)

SpecCompletion == InitJournal /\ [][NextCompletion]_vars

\* Mood filter: the bar of a custom mood is clicked while moods are added and
\* deleted.
NextMoodFilter ==
  \/ \E mood \in MoodOptions \cap {Happy, Joy}, typed \in BOOLEAN :
       /\ Len(entries) < MaxShown
       /\ Submit(mood, TextWalked, typed)
  \/ SaveMood(Joy, PickedColor)
  \/ DeleteMood(Joy)
  \/ \E i \in DOMAIN chart.labels :
       chart.labels[i] \in {Happy, Joy} /\ ClickBar(i)
  \/ Reload

SpecMoodFilter == InitNoKey /\ [][NextMoodFilter]_vars

\* ------------------------------------------------------------------ claims

RegistryNames == {moodList[i].name : i \in DOMAIN moodList}

RECURSIVE SumSeq(_)
SumSeq(q) == IF q = <<>> THEN 0 ELSE Head(q) + SumSeq(Tail(q))

RemoveAt(q, k) == SubSeq(q, 1, k - 1) \o SubSeq(q, k + 1, Len(q))

\* C1: saving the entry collection and loading it again yields the same
\* entries, mood, text and timestamp of each, whatever additions and removals
\* produced the collection; so the journal a reload reads from the slot is the
\* journal that was in memory.
C1_SaveLoadRoundTrip ==
  [][ /\ LoadEntriesFrom(SaveEntriesOf(entries')) = entries'
      /\ Reload => entries' = entries ]_vars

\* A reload over a journal of two entries written by submissions.
C1_Witness == ev.op = "load" /\ Len(entries) >= 2

\* C2: the chart has one bar per registry mood, in registry order; a bar's
\* height is the number of entries of that mood, the heights add up to the
\* number of entries whose mood is in the registry, and a mood without
\* entries keeps its bar, at height 0.
C2_ChartCounts ==
  /\ Len(chart.labels) = Len(moodList)
  /\ Len(chart.data) = Len(moodList)
  /\ \A i \in DOMAIN moodList :
       /\ chart.labels[i] = moodList[i].name
       /\ chart.data[i] =
            Cardinality({k \in DOMAIN entries : entries[k].mood = moodList[i].name})
  /\ SumSeq(chart.data) =
       Cardinality({k \in DOMAIN entries : entries[k].mood \in RegistryNames})

\* The last entry of Happy was deleted and its bar stays at 0, while an entry
\* whose mood left the registry is counted by no bar.
C2_Witness ==
  /\ ev.op = "delete"
  /\ \E i \in DOMAIN moodList : moodList[i].name = Happy /\ chart.data[i] = 0
  /\ \E k \in DOMAIN entries : entries[k].mood \notin RegistryNames
  /\ SumSeq(chart.data) < Len(entries)

\* The moods of the slot's text, as JSON.parse gives them.
StoredMoodNames ==
  LET r == JsonParse(storedMoods)
  IN  IF storedMoods # <<>> /\ r.ok THEN MapNames(AsMoods(r.val)) ELSE <<>>

JoyIndices(names) == {i \in DOMAIN names : ToLowerCase(names[i]) = JoyLower}

\* C3: loading a persisted registry that holds two entries named "Joy" in any
\* case variant yields a registry with exactly one of them, the first listed.
C3_OneJoyAfterLoad ==
  (ev.op = "load" /\ Cardinality(JoyIndices(StoredMoodNames)) >= 2)
    => /\ Cardinality(JoyIndices(MapNames(moodList))) = 1
       /\ \E i \in JoyIndices(StoredMoodNames) :
            /\ \A j \in JoyIndices(StoredMoodNames) : i <= j
            /\ \E k \in DOMAIN moodList : moodList[k].name = StoredMoodNames[i]

\* The effect claimed of deleteMood(name) on the registry.
C4_Effect(name) ==
  /\ name \in {Happy, Sad, Angry, Excited, Calm} => moodList' = moodList
  /\ name \notin RegistryNames => moodList' = moodList
  /\ (name \notin {Happy, Sad, Angry, Excited, Calm} /\ name \in RegistryNames)
       => /\ Len(moodList') = Len(moodList) - 1
          /\ \E k \in DOMAIN moodList :
               moodList[k].name = name /\ moodList' = RemoveAt(moodList, k)

\* C4: deleteMood on a built-in name leaves the registry as it is; on a custom
\* name of the registry it removes that mood and no other; on a name the
\* registry does not hold it leaves the registry as it is.
C4_DeleteMood ==
  [][ \A name \in {Joy, JoyLower, Happy, Sad} : DeleteMood(name) => C4_Effect(name) ]_vars

\* Joy was deleted from the registry while an entry still carries it, and the
\* built-in moods are all there.
C4_Witness ==
  /\ ev.op = "deleteMood"
  /\ Joy \notin RegistryNames
  /\ \E k \in DOMAIN entries : entries[k].mood = Joy
  /\ {Happy, Sad, Angry, Excited, Calm} \subseteq RegistryNames

\* The two clicks of the claim: the last event was a click on the bar that the
\* event before it clicked as well.
TwoClicksOnBar == ev.op = "bar" /\ ev.again

\* C5 as stated: whatever the mood filter was, two clicks in a row on the same
\* bar leave the mood filter cleared and the timeline that of no mood filter.
C5_ClearedFromAnyState ==
  TwoClicksOnBar
    => /\ filterMood = NoFilter
       /\ timeline = RenderEntries(entries, NoFilter, filterDate)

\* C5: two clicks in a row on the same bar leave the mood filter cleared, and
\* the timeline that of no mood filter, when the filter before the first click
\* was absent or another mood; when it was the bar's mood, the first click
\* clears it and the second sets it to the bar's mood again.
C5_ClearedUnlessSet ==
  /\ (TwoClicksOnBar /\ ~ev.same)
       => /\ filterMood = NoFilter
          /\ timeline = RenderEntries(entries, NoFilter, filterDate)
  /\ (TwoClicksOnBar /\ ev.same)
       => /\ filterMood = chart.labels[ev.n]
          /\ \A k \in DOMAIN timeline : timeline[k].mood = chart.labels[ev.n]

\* Two clicks on a bar from a state without that filter, over a journal that
\* shows its two entries again.
C5_Witness ==
  /\ TwoClicksOnBar /\ ~ev.same
  /\ filterMood = NoFilter
  /\ filterDate = NoFilter
  /\ Len(timeline) = 2

\* A valid submission: a mood of the picker and the text of the claim's example
\* or another text.
ValidSubmit(mood, raw) ==
  /\ mood # <<>>
  /\ Trim(raw) # <<>>
  /\ \E typed \in BOOLEAN : Submit(mood, raw, typed)

NewEntry(mood, raw) == [mood |-> mood, text |-> Trim(raw), timestamp |-> now]

\* The store and the chart after a valid submission: one entry more, the
\* earlier ones as they were, the bar of the mood one higher and no other bar
\* changed.
StoreAndCounts(mood, raw) ==
  /\ Len(entries') = Len(entries) + 1
  /\ SubSeq(entries', 1, Len(entries)) = entries
  /\ entries'[Len(entries')] = NewEntry(mood, raw)
  /\ chart'.labels = chart.labels
  /\ \A i \in DOMAIN chart.labels :
       chart'.data[i] = chart.data[i] + (IF chart.labels[i] = mood THEN 1 ELSE 0)

\* C6 as stated: after a valid submission of M and T from any reachable state
\* the store has one entry more, the count of M is one higher, the other
\* counts are as before, and the first card of the timeline shows T.
C6_TopCardShowsText ==
  [][ \A in \in {<<Calm, TextWalked>>, <<Happy, TextHappyDays>>} :
        ValidSubmit(in[1], in[2])
          => /\ StoreAndCounts(in[1], in[2])
             /\ timeline' # <<>>
             /\ timeline'[1].text = Trim(in[2]) ]_vars

\* The card of e in its place: behind every card whose timestamp is not
\* smaller, in front of every card whose timestamp is smaller.
CardInserted(e) ==
  \E k \in 1..(Len(timeline) + 1) :
    /\ timeline' = SubSeq(timeline, 1, k - 1) \o <<e>> \o SubSeq(timeline, k, Len(timeline))
    /\ \A j \in 1..(k - 1) : timeline[j].timestamp >= e.timestamp
    /\ \A j \in k..Len(timeline) : timeline[j].timestamp < e.timestamp

\* The filters in force let e through.
Shown(e) ==
  /\ filterMood = NoFilter \/ filterMood = e.mood
  /\ filterDate = NoFilter \/ DayString(filterDate[1]) = DayString(e.timestamp)

\* C6: after a valid submission of M and T the store has one entry more, the
\* count of M is one higher and the other counts are as before; the timeline
\* gains the card of the new entry when the filters in force let it through,
\* placed behind the cards whose timestamp is not smaller, and is unchanged
\* otherwise; so the first card is the new entry's, showing T, when the entry
\* is let through and every card shown has a smaller timestamp, and is the
\* card that was first before in every other case.
C6_CardInPlace ==
  [][ \A in \in {<<Calm, TextWalked>>, <<Happy, TextHappyDays>>} :
        ValidSubmit(in[1], in[2])
          => LET e == NewEntry(in[1], in[2])
             IN  /\ StoreAndCounts(in[1], in[2])
                 /\ Shown(e) => CardInserted(e)
                 /\ ~Shown(e) => timeline' = timeline
                 /\ IF Shown(e) /\ \A j \in DOMAIN timeline :
                                      timeline[j].timestamp < e.timestamp
                    THEN timeline'[1] = e
                    ELSE /\ (timeline = <<>>) <=> (timeline' = <<>>)
                         /\ timeline # <<>> => timeline'[1] = timeline[1] ]_vars

\* The example of the claim: Calm with "Walked outside" on top of an earlier
\* card, no filter in force.
C6_Witness ==
  /\ ev.op = "submit"
  /\ filterMood = NoFilter /\ filterDate = NoFilter
  /\ Len(timeline) = 2
  /\ timeline[1] = entries[Len(entries)]
  /\ timeline[1].mood = Calm
  /\ timeline[1].text = <<"W","a","l","k","e","d"," ","o","u","t","s","i","d","e">>
  /\ timeline[2].timestamp < timeline[1].timestamp

WordHappy == <<"h","a","p","p","y">>
WordDays == <<"d","a","y","s">>

\* The place of word w in the trending list, 0 when it is not listed.
RankOf(w) ==
  IF \E i \in DOMAIN trending : trending[i].word = w
  THEN CHOOSE i \in DOMAIN trending : trending[i].word = w
  ELSE 0

\* The texts of the journal, as a set.
JournalTexts == {entries[k].text : k \in DOMAIN entries}

EntriesOfDay(d) == {k \in DOMAIN entries : DayString(entries[k].timestamp) = d}

\* C8: a cell of the calendar carries the distinct moods of the entries of its
\* day, and asks for the day's summary exactly when the day has at least 4
\* entries: 4 entries of moods Happy, Happy, Sad, Calm give 3 distinct moods
\* and a request, 3 entries give none.
C8_DistinctMoodsAndThreshold ==
  \A d \in DOMAIN cells :
    /\ {cells[d].unique[i] : i \in DOMAIN cells[d].unique}
         = {entries[k].mood : k \in EntriesOfDay(d)}
    /\ \A i, j \in DOMAIN cells[d].unique :
         cells[d].unique[i] = cells[d].unique[j] => i = j
    /\ cells[d].requested <=> Cardinality(EntriesOfDay(d)) >= 4

\* Day 0 holds Happy, Happy, Sad, Calm.
C8_Witness ==
  /\ 0 \in DOMAIN cells
  /\ Cardinality(EntriesOfDay(0)) = 4
  /\ cells[0].unique = <<Happy, Sad, Calm>>
  /\ cells[0].requested

\* C9: no two entries of the store have the same timestamp.
C9_TimestampsDistinct ==
  \A i, j \in DOMAIN entries :
    entries[i].timestamp = entries[j].timestamp => i = j

\* The effect claimed of the Delete button of a card of timestamp ts.
C10_Effect(ts) ==
  IF \E k \in DOMAIN entries : entries[k].timestamp = ts
  THEN \E k \in DOMAIN entries :
         /\ entries[k].timestamp = ts
         /\ \A j \in 1..(k - 1) : entries[j].timestamp # ts
         /\ entries' = RemoveAt(entries, k)
         /\ storedEntries' = StringifyEntries(entries')
  ELSE UNCHANGED <<entries, storedEntries, timeline, chart, trending, wordCloud, cells>>

\* C10: the Delete button of a card removes the first entry, in storage order,
\* that has the card's timestamp and leaves the other entries and their order
\* as they were; when no entry has that timestamp nothing changes.
C10_DeleteFirstMatch ==
  [][ \A i \in DOMAIN timeline :
        (\E typed \in BOOLEAN : DeleteCard(i, typed))
          => C10_Effect(timeline[i].timestamp) ]_vars

\* A card was deleted from a journal of three entries.
C10_Witness ==
  /\ ev.op = "delete"
  /\ Len(entries) = 2
  /\ entries[1].mood # entries[2].mood

\* C11: loadEntries hands control back to the handler that called it with the
\* store empty, when the entries slot is absent and when its text does not
\* parse; the handler goes on to render the views of the empty store.
C11_EmptyOnBadSlot ==
  (ev.op = "load" /\ storedEntries \in {<<>>, TruncatedJournal})
    => /\ entries = <<>>
       /\ timeline = <<>>
       /\ chart.labels = MapNames(moodList)
       /\ \A i \in DOMAIN chart.data : chart.data[i] = 0

\* The page was loaded over a slot whose text breaks off.
C11_Witness ==
  /\ ev.op = "load"
  /\ storedEntries = TruncatedJournal
  /\ entries = <<>>

\* The submissions the claim calls invalid: no radio checked, or a text of
\* blanks only.
InvalidForms == {in \in FilledForms : in[1] = <<>> \/ in[2] = TextBlank}

\* C12: a submission with no mood selected, or with a text that is empty after
\* trimming, changes neither the store, the entries slot, the filters nor any
\* view, and leaves the form as the user filled it.
C12_DiscardChangesNothing ==
  [][ \A in \in InvalidForms :
        (\E typed \in BOOLEAN : Submit(in[1], in[2], typed))
          => /\ UNCHANGED <<entries, storedEntries, moodList, storedMoods, storedKey,
                            filterMood, filterDate, timeline, chart, trending,
                            wordCloud, calMonth, cells, mixFeelings, pending>>
             /\ form' = [mood |-> in[1], text |-> in[2]] ]_vars

\* A blank text was submitted with Calm checked while a mood filter was set
\* over a journal of one entry.
C12_Witness ==
  /\ ev.op = "discard"
  /\ form = [mood |-> Calm, text |-> TextBlank]
  /\ filterMood # NoFilter
  /\ Len(entries) = 1

\* The moods of the registry whose name is name, whatever the case of letters.
SameNameIgnoringCase(name) ==
  {i \in DOMAIN moodList : ToLowerCase(moodList[i].name) = ToLowerCase(name)}

\* The effect claimed of addCustomMood(name, color).
C13_Effect(name, color) ==
  IF SameNameIgnoringCase(name) # {}
  THEN \E i \in SameNameIgnoringCase(name) :
         /\ \A j \in SameNameIgnoringCase(name) : i <= j
         /\ Len(moodList') = Len(moodList)
         /\ moodList'[i] = [name |-> moodList[i].name, icon |-> "fa-heart", color |-> color]
         /\ \A k \in DOMAIN moodList : k # i => moodList'[k] = moodList[k]
  ELSE /\ Len(moodList') = Len(moodList) + 1
       /\ moodList'[Len(moodList')] = [name |-> name, icon |-> "fa-heart", color |-> color]
       /\ \A k \in DOMAIN moodList : moodList'[k] = moodList[k]

\* C13: addCustomMood is an upsert: a mood of the registry whose name equals
\* the given one ignoring case, the first of them, gets the colour and the icon
\* of custom moods in place, the registry keeping its size and order;
\* otherwise one mood of that name, icon fa-heart and colour is appended and
\* the moods already there are unchanged.
C13_Upsert ==
  [][ \A name \in TypedNames \ {TextBlank} :
        SaveMood(name, PickedColor) => C13_Effect(name, PickedColor) ]_vars

\* "happy" was saved over a registry of the five built-in moods and a custom
\* one: Happy carries the icon of custom moods, the registry kept its size.
C13_Witness ==
  /\ ev.op = "addMood"
  /\ Len(moodList) = 6
  /\ moodList[1] = [name |-> Happy, icon |-> "fa-heart", color |-> "#ffb74d"]
  /\ moodList[6].name = Joy

\* C14: the registry never holds two moods of the same name.
C14_NamesDistinct ==
  \A i, j \in DOMAIN moodList : moodList[i].name = moodList[j].name => i = j

\* The slot listed Joy twice and the load kept the first of the two.
C14_Witness ==
  /\ ev.op = "load"
  /\ Cardinality({i \in DOMAIN StoredMoodNames : StoredMoodNames[i] = Joy}) = 2
  /\ Cardinality({i \in DOMAIN moodList : moodList[i].name = Joy}) = 1

\* C15: the registry never holds a mood named "gg" or "gg gg", nor one of
\* empty name.
C15_NoPlaceholderNames ==
  \A i \in DOMAIN moodList :
    moodList[i].name \notin {<<>>, <<"g","g">>, <<"g","g"," ","g","g">>}

BuiltInsOf(names) == names \cap {Happy, Sad, Angry, Excited, Calm}

\* C16: after a load the registry is the five built-in moods when the slot
\* holds nothing, and otherwise holds the built-in moods of the saved data and
\* no other built-in mood.
C16_SeedOnlyWhenAbsent ==
  ev.op = "load"
    => /\ storedMoods = <<>>
            => MapNames(moodList) = <<Happy, Sad, Angry, Excited, Calm>>
       /\ storedMoods # <<>>
            => BuiltInsOf(RegistryNames)
                 = BuiltInsOf({StoredMoodNames[i] : i \in DOMAIN StoredMoodNames})

\* The page was loaded over saved data that lists Joy and no built-in mood.
C16_Witness ==
  /\ ev.op = "load"
  /\ storedMoods # <<>>
  /\ MapNames(moodList) = <<Joy>>

\* How often e occurs in q.
Occurrences(q, e) == Cardinality({i \in DOMAIN q : q[i] = e})

\* C17: the timeline holds the entries that pass every filter in force, each
\* as often as the store holds it and no other entry, in order of
\* non-increasing timestamp.
C17_TimelineIsFilteredStore ==
  /\ \A k \in DOMAIN entries :
       Occurrences(timeline, entries[k])
         = IF Shown(entries[k]) THEN Occurrences(entries, entries[k]) ELSE 0
  /\ \A i \in DOMAIN timeline : \E k \in DOMAIN entries : timeline[i] = entries[k]
  /\ \A i, j \in DOMAIN timeline :
       i < j => timeline[i].timestamp >= timeline[j].timestamp

\* Both filters are set over a journal of two entries, and one of the two
\* passes.
C17_Witness ==
  /\ filterMood # NoFilter
  /\ filterDate # NoFilter
  /\ Len(entries) = 2
  /\ Len(timeline) = 1

\* C18: after a click on a chart bar or on a calendar cell the timeline is that
\* of the filters in force, and the chart fades the bars whose mood is not the
\* mood filter, none when there is no mood filter.
C18_ChartFollowsFilter ==
  ev.op \in {"bar", "cell"}
    => /\ timeline = RenderEntries(entries, filterMood, filterDate)
       /\ \A i \in DOMAIN chart.labels :
            chart.faded[i] <=> (filterMood # NoFilter /\ chart.labels[i] # filterMood)

\* C20: a click on the cell of a day sets the date filter to that day, unless
\* the filter is on that day already, and then clears it; so the second of
\* two clicks in a row on a cell, the first of which set the filter, leaves no
\* date filter, and a click on the cell of another day puts that day in the
\* place of the filter's.
C20_CellToggles ==
  [][ /\ \A d \in DOMAIN cells :
           ClickCell(d)
             => filterDate' = IF filterDate # NoFilter /\ filterDate[1] \div MsPerDay = d
                              THEN NoFilter ELSE <<d * MsPerDay>>
      /\ (ev'.op = "cell" /\ ev'.again /\ ~ev'.same) => filterDate' = NoFilter ]_vars

\* The cell of day 1 was clicked twice in a row, starting without a date
\* filter, over a journal with an entry.
C20_Witness ==
  /\ ev = [op |-> "cell", n |-> 1, again |-> TRUE, same |-> FALSE]
  /\ filterDate = NoFilter
  /\ entries # <<>>

\* C19: the mood filter changes in a click on a chart bar and in no other
\* handler, the date filter in a click on a calendar cell and in no other:
\* submissions, deletions, adding and deleting moods, month steps and the
\* replies of the summary service leave both as they are; a page load starts
\* with both absent and leaves them absent.
C19_OnlyClicksChangeFilters ==
  [][ /\ (filterMood' # filterMood)
           => (\E i \in DOMAIN chart.labels : ClickBar(i)) \/ Reload
      /\ (filterDate' # filterDate)
           => (\E d \in DOMAIN cells : ClickCell(d)) \/ Reload
      /\ Reload => filterMood' = NoFilter /\ filterDate' = NoFilter ]_vars

\* A reply of the summary service arrived while both filters were set.
C19_Witness ==
  /\ ev.op = "reply"
  /\ filterMood = Happy
  /\ filterDate # NoFilter
  /\ mixFeelings # <<>>

\* The static affirmations of loadDailyAffirmation.
StaticAffirmations == {fallbackAffirmations[k] : k \in DOMAIN fallbackAffirmations}

\* The caption built from the moods the entries of day d have now.
LocalCaption(es, d) == FallbackCaption(Unique(DayMoods(es, d), {}))

\* C21: when the text service yields no text, nothing is written to the chat;
\* an affirmation call that resolves leaves one of the static affirmations in
\* the panel, and a summary call that resolves leaves, in the cell it was sent
\* for, the caption built from the unique moods of that day, which has at
\* least 4 entries.  Without a key the same holds at the end of the handler.
C21_SilentFallback ==
  [][ /\ (\E draw \in Draws : AffirmationReply(NoText, draw))
           => affirmation' \in StaticAffirmations /\ chatMessages' = chatMessages
      /\ ((\E typed \in BOOLEAN, draw \in Draws : NewAffirmation(typed, draw))
            /\ ~storedKey')
           => affirmation' \in StaticAffirmations /\ chatMessages' = chatMessages
      /\ \A i \in DOMAIN pending :
           (SummaryReply(i, NoText) /\ pending[i].attached)
             => /\ Len(DayMoods(entries, pending[i].day)) >= MixThreshold
                /\ cells'[pending[i].day].caption = LocalCaption(entries, pending[i].day)
                /\ chatMessages' = chatMessages
      /\ (ev'.op \in {"load", "submit", "delete"} /\ ~storedKey')
           => \A d \in DOMAIN cells' :
                Len(DayMoods(entries', d)) >= MixThreshold
                  => cells'[d].caption = LocalCaption(entries', d) ]_vars

C21_Witness ==
  /\ ev.op = "reply"
  /\ pending = <<>>
  /\ affCalls = 0
  /\ storedKey
  /\ affirmation = fallbackAffirmations[Len(fallbackAffirmations)]
  /\ \E d \in DOMAIN cells :
       /\ cells[d].requested
       /\ cells[d].unique = <<Happy, Sad, Calm>>
       /\ cells[d].caption = FallbackCaption(cells[d].unique)

\* The requests to the text service that are in flight.
RequestsInFlight == Len(pending) + affCalls + chatCalls

\* C22: a chat message sent while no key is to be had is followed in the
\* transcript by the error message of the chat, and no request goes out; an
\* affirmation or a rendering of the calendar without a key writes nothing to
\* the transcript, sends no request, and shows the fallback.
C22_NoKeyNoRequest ==
  [][ /\ (ev'.op = "chat" /\ ~storedKey')
           => /\ \E raw \in {ChatHello} :
                   chatMessages' = chatMessages \o
                     << Message("user", Trim(raw)), Message("bot", NoKeyError) >>
              /\ RequestsInFlight' = RequestsInFlight
      /\ (ev'.op = "affirm" /\ ~storedKey')
           => /\ chatMessages' = chatMessages
              /\ RequestsInFlight' = RequestsInFlight
              /\ affirmation' \in StaticAffirmations
      /\ (ev'.op \in {"submit", "delete", "load"} /\ ~storedKey')
           => /\ ev'.op # "load" => chatMessages' = chatMessages
              /\ RequestsInFlight' = 0
              /\ \A d \in DOMAIN cells' :
                   cells'[d].requested => cells'[d].caption = FallbackCaption(cells'[d].unique) ]_vars

C22_Witness ==
  /\ ev.op = "chat"
  /\ ~storedKey
  /\ chatCalls = 0
  /\ chatMessages = << Message("user", <<"h","i">>), Message("bot", NoKeyError) >>

\* C23: within a session a day that has a summary in the cache keeps one,
\* whatever happens next, also when entries of that day are deleted.
C23_CacheOnlyGrows ==
  [][DOMAIN mixFeelings \subseteq DOMAIN mixFeelings']_vars

C23_Witness ==
  /\ ev.op = "delete"
  /\ \E d \in DOMAIN mixFeelings : DayMoods(entries, d) = <<>>

\* The slot's text decodes to the list: JSON.parse gives it, or the slot is
\* absent and the list is the one a load starts from.
EntriesSlotDecodes(slot, es) ==
  IF slot = <<>> THEN es = <<>>
  ELSE JsonParse(slot).ok /\ AsEntries(JsonParse(slot).val) = es
MoodsSlotDecodes(slot, ml) ==
  IF slot = <<>> THEN ml = DefaultMoods
  ELSE JsonParse(slot).ok /\ AsMoods(JsonParse(slot).val) = ml

\* C24 as stated: at the end of every event that changes the entries or the
\* registry, both slots decode to the lists in memory.
C24_BothSlotsInStep ==
  [][ (ev'.op \in {"submit", "delete", "addMood"}
         \/ \E name \in {Joy, JoyLower} : DeleteMood(name))
        => /\ EntriesSlotDecodes(storedEntries', entries')
           /\ MoodsSlotDecodes(storedMoods', moodList') ]_vars

\* C24: an event that changes the entries ends with the entries slot decoding
\* to the entries in memory, and an event that changes the registry ends with
\* the moods slot decoding to the registry in memory.
C24_OwnSlotInStep ==
  [][ /\ ev'.op \in {"submit", "delete"}
           => /\ storedEntries' # <<>>
              /\ EntriesSlotDecodes(storedEntries', entries')
      /\ (ev'.op = "addMood" \/ \E name \in {Joy, JoyLower} : DeleteMood(name))
           => /\ storedMoods' # <<>>
              /\ MoodsSlotDecodes(storedMoods', moodList') ]_vars

C24_Witness ==
  /\ ev.op = "deleteMood"
  /\ entries # <<>>
  /\ Len(moodList) > Len(DefaultMoods)
  /\ ~ \E i \in DOMAIN moodList : moodList[i].name = Joy
  /\ storedMoods = SaveMoodListOf(moodList)
  /\ storedEntries = SaveEntriesOf(entries)

\* The words of a list of pairs, in its order.
WordsOf(list) == [i \in DOMAIN list |-> list[i].word]

\* C25 as stated: the trending list has at most 5 words, the word cloud at
\* most 20, and the words of the trending list are the first words of the
\* word cloud, in the same order.
C25_TrendingIsPrefixOfCloud ==
  /\ Len(trending) <= TrendingTop
  /\ Len(wordCloud) <= CloudTop
  /\ Len(trending) <= Len(wordCloud)
  /\ WordsOf(trending) = SubSeq(WordsOf(wordCloud), 1, Len(trending))

\* The first distinct moods of day d, as many as a cell has room for.
FirstMoods(es, d) == Take(Unique(DayMoods(es, d), {}), MaxDots)

OutsideCompletions ==
  <<entries, storedEntries, moodList, storedMoods, storedKey, filterMood,
    filterDate, timeline, chart, trending, wordCloud, calMonth, form,
    chatMessages, conversationHistory, chatCalls>>

\* The completion of call i of pending wrote only the cache slot of its day and
\* the caption of the cell it was sent for.
WroteOnlyOwn(i) ==
  LET d == pending[i].day
  IN  /\ pending' = RemoveAt(pending, i)
      /\ DOMAIN mixFeelings \subseteq DOMAIN mixFeelings'
      /\ DOMAIN mixFeelings' \subseteq DOMAIN mixFeelings \cup {d}
      /\ \A x \in DOMAIN mixFeelings : x # d => mixFeelings'[x] = mixFeelings[x]
      /\ DOMAIN cells' = DOMAIN cells
      /\ \A x \in DOMAIN cells : x # d => cells'[x] = cells[x]
      /\ ~pending[i].attached => cells' = cells
      /\ d \in DOMAIN cells
           => /\ cells'[d].unique = cells[d].unique
              /\ cells'[d].dots = cells[d].dots
              /\ cells'[d].requested = cells[d].requested

Referencing(es, name) == Cardinality({k \in DOMAIN es : es[k].mood = name})

\* C28: deleting a custom mood of the registry leaves the entries, their slot
\* and the timeline as they are; the chart loses the bar of the mood, so the
\* sum of the counts drops by the number of entries of that mood; and when a
\* mood of that name enters the registry again its bar counts them again.
C28_DeleteMoodKeepsEntries ==
  [][ \A name \in {Joy, JoyLower} :
        /\ (DeleteMood(name) /\ name \in RegistryNames)
             => /\ entries' = entries
                /\ storedEntries' = storedEntries
                /\ timeline' = timeline
                /\ \A k \in DOMAIN entries :
                     Occurrences(timeline', entries[k]) = Occurrences(entries, entries[k])
                /\ \A i \in DOMAIN chart'.labels : chart'.labels[i] # name
                /\ SumSeq(chart'.data) = SumSeq(chart.data) - Referencing(entries, name)
        /\ (ev'.op = "addMood" /\ name \notin RegistryNames
              /\ \E i \in DOMAIN moodList' : moodList'[i].name = name)
             => /\ entries' = entries
                /\ \E i \in DOMAIN chart'.labels :
                     chart'.labels[i] = name /\ chart'.data[i] = Referencing(entries, name)
                /\ SumSeq(chart'.data) = SumSeq(chart.data) + Referencing(entries, name) ]_vars

\* The mood Joy was deleted while an entry of it is in the journal: the entry
\* is in the timeline and no bar counts it.
C28_Witness ==
  /\ ev.op = "deleteMood"
  /\ Joy \notin RegistryNames
  /\ \E k \in DOMAIN entries :
       entries[k].mood = Joy /\ \E j \in DOMAIN timeline : timeline[j] = entries[k]
  /\ SumSeq(chart.data) = Len(entries) - Referencing(entries, Joy)
  /\ storedEntries = SaveEntriesOf(entries)

\* C29 as stated: the mood filter is absent or names a mood of the registry,
\* which has a bar on the chart.
C29_FilterNamesRegistryMood ==
  filterMood # NoFilter
    => /\ filterMood \in RegistryNames
       /\ \E i \in DOMAIN chart.labels : chart.labels[i] = filterMood

\* The calls of pending that were sent for day d.
CallsFor(calls, d) == Cardinality({i \in DOMAIN calls : calls[i].day = d})

\* C30 as stated: a cached summary is never replaced by a different one, and
\* no day has more than one request in flight.
C30_OneWriteOneRequest ==
  [][ /\ \A d \in DOMAIN mixFeelings :
           d \in DOMAIN mixFeelings' /\ mixFeelings'[d] = mixFeelings[d]
      /\ \A d \in DOMAIN cells' : CallsFor(pending', d) <= 1 ]_vars

====
